---- MODULE Spec2Model ----
(***************************************************************************)
(* Conversation compaction coordinator of the desktop UI                   *)
(* (ui/desktop/src/components/context_management/ContextManager.tsx) and   *)
(* the CompactionMarker renderer (CompactionMarker.tsx).                   *)
(*                                                                         *)
(* One "call" is one invocation of handleAutoCompaction or                 *)
(* handleManualCompaction.  performCompaction is an async function: it     *)
(* runs synchronously up to the await of manageContextFromBackend, is      *)
(* resumed when that promise resolves or rejects, and on success leaves a  *)
(* setTimeout callback behind.  Each of these synchronous stretches is one *)
(* action.  The caller owns the message history and hands the coordinator  *)
(* a setter (setMessages) and, for the automatic trigger, the capability   *)
(* that sends the next turn (append).                                      *)
(***************************************************************************)
EXTENDS Integers, Sequences, FiniteSets, TLC

\* ------------------------------------------------------------------ bounds
MaxCalls == 2      \* invocations of the two triggers
MaxClock == 1      \* readings of Date.now() are 0..MaxClock
MaxLen   == 1      \* longest history a trigger is handed from outside
MaxBlocks  == 2    \* content blocks of a message handed to the renderer
MaxRenders == 2    \* times the same message is rendered, or tested

\* ------------------------------------------------------- program constants
MsPerSecond == 1000

Calls == 1..MaxCalls

\* ---------------------------------------------------------------- messages
Null == <<>>
\* string | null : null is the empty tuple, a string s is <<s>>
Str(s) == <<s>>

TextContent(t) == [type |-> "text", text |-> t]
CompactionMarkerContent(m) == [type |-> "compactionMarker", msg |-> m]
ToolRequestContent == [type |-> "toolRequest", id |-> "tool-1"]

AutoMsg      == "Context limit reached. Compacting conversation..."
ManualMsg    == "Compacting conversation as requested..."
CompletedMsg == "Conversation compacted. Summary prepared to continue."
FailedMsg    == "Compaction failed. Please try again or start a new session."
UnknownErrorMsg == "Unknown error during compaction"
DefaultMarkerText == "Conversation compacted"

\* A message the caller's history holds before any compaction.
UserMessage(i) ==
  [id |-> <<"user", i>>, role |-> "user", created |-> 0,
   content |-> <<TextContent("hi")>>, display |-> TRUE, sendToLLM |-> TRUE]

\* The message the caller adds on its own while a compaction is running.
LateMessage == UserMessage(MaxLen + 1)

\* The histories a trigger can be handed besides the caller's current one.
RECURSIVE UserHistory(_)
UserHistory(n) == IF n = 0 THEN <<>> ELSE Append(UserHistory(n - 1), UserMessage(n))

InputHistories == {UserHistory(n) : n \in 0..MaxLen}

\* ------------------------------------------------ summarization capability
ApiMessage(k, content) ==
  [id |-> <<"api", k>>, role |-> "assistant", created |-> 0, content |-> content]

Summary1 == "Summary of conversation."
Summary2 == "Another summary."

\* What manageContextFromBackend can resolve with (the .messages of the
\* response) ...
Responses ==
  { <<ApiMessage(1, <<TextContent(Summary1)>>)>>,
    <<ApiMessage(2, <<TextContent(Summary2)>>), ApiMessage(1, <<TextContent(Summary1)>>)>>,
    <<>>,
    <<ApiMessage(3, <<>>)>>,
    <<ApiMessage(4, <<ToolRequestContent, TextContent(Summary1)>>)>> }

\* ... and what it can reject with: an Error carrying a message, or a thrown
\* value that is not an Error.
Rejections ==
  { [isError |-> TRUE,  message |-> "network error"],
    [isError |-> FALSE, message |-> "thrown string"] }

convertApiMessageToFrontendMessage(apiMessage, display, sendToLLM) ==
  [id |-> apiMessage.id, role |-> apiMessage.role, created |-> apiMessage.created,
   content |-> apiMessage.content, display |-> display, sendToLLM |-> sendToLLM]

\* The request handed to manageContextFromBackend.
manageContextFromBackend(messages) ==
  [messages |-> messages, manageAction |-> "summarize"]

\* ------------------------------------------------------- pure helpers
\* only the first content block looked at
hasCompactionMarker_first(message) ==
  Len(message.content) >= 1 /\ message.content[1].type = "compactionMarker"

hasCompactionMarker(message) ==
  \E i \in 1..Len(message.content) : message.content[i].type = "compactionMarker"

\* the block found from the end of the content instead of from its start
FindCompactionContent_last(message) ==
  IF hasCompactionMarker(message)
  THEN CHOOSE i \in 1..Len(message.content) :
         /\ message.content[i].type = "compactionMarker"
         /\ \A j \in (i + 1)..Len(message.content) : message.content[j].type # "compactionMarker"
  ELSE 0

\* message.content.find(c => c.type === 'compactionMarker'): index of the
\* first such block, 0 when there is none.
FindCompactionContent(message) ==
  IF hasCompactionMarker(message)
  THEN CHOOSE i \in 1..Len(message.content) :
         /\ message.content[i].type = "compactionMarker"
         /\ \A j \in 1..(i - 1) : message.content[j].type # "compactionMarker"
  ELSE 0

\* CompactionMarker component: the text it renders,
\* compactionContent?.msg || 'Conversation compacted'.
CompactionMarker(message) ==
  LET i == FindCompactionContent(message) IN
  IF i = 0 THEN DefaultMarkerText
  ELSE IF "msg" \notin DOMAIN message.content[i] THEN DefaultMarkerText
  ELSE IF message.content[i].msg = "" THEN DefaultMarkerText
  ELSE message.content[i].msg

\* ------------------------------------------------------------------- state
VARIABLES
  isCompacting,      \* useState<boolean>(false)
  compactionError,   \* useState<string | null>(null)
  history,           \* the caller's message list (what setMessages last set,
                     \* plus what the caller added itself)
  now,               \* Date.now()
  pc,                \* per call: "idle", "awaiting", "timer", "done"
  messages,          \* per call: the messages argument
  append,            \* per call: the append argument ("caller" or "noop")
  isManual,          \* per call: the isManual argument
  compactionMarker,  \* per call: the in-flight marker built before the await
  sent,              \* per call: the request given to manageContextFromBackend
  outcome,           \* per call: how that request settled
  summaryMessage,    \* per call: the message the pending timer will append
  setMessagesCalls,  \* per call: the values it passed to setMessages, in order
  resumeCalls,       \* invocations of the caller's append capability, in order
  renderInput,       \* the message the UI has in hand
  renderedText,      \* what CompactionMarker rendered for it, render by render
  markerFlags        \* what hasCompactionMarker returned for it, call by call

vars == <<isCompacting, compactionError, history, now, pc, messages, append,
          isManual, compactionMarker, sent, outcome, summaryMessage,
          setMessagesCalls, resumeCalls, renderInput, renderedText, markerFlags>>

coordinatorVars == <<isCompacting, compactionError, history, now, pc, messages,
                     append, isManual, compactionMarker, sent, outcome,
                     summaryMessage, setMessagesCalls, resumeCalls>>

uiVars == <<renderInput, renderedText, markerFlags>>

NoMessage == [id |-> <<"none", 0>>]
Pending == [kind |-> "pending"]

Init ==
  /\ isCompacting = FALSE
  /\ compactionError = Null
  /\ history \in InputHistories
  /\ now = 0
  /\ pc = [p \in Calls |-> "idle"]
  /\ messages = [p \in Calls |-> <<>>]
  /\ append = [p \in Calls |-> "none"]
  /\ isManual = [p \in Calls |-> FALSE]
  /\ compactionMarker = [p \in Calls |-> NoMessage]
  /\ sent = [p \in Calls |-> Null]
  /\ outcome = [p \in Calls |-> Pending]
  /\ summaryMessage = [p \in Calls |-> NoMessage]
  /\ setMessagesCalls = [p \in Calls |-> <<>>]
  /\ resumeCalls = <<>>
  /\ renderInput = NoMessage
  /\ renderedText = <<>>
  /\ markerFlags = <<>>

\* ------------------------------------------------- performCompaction, parts
\* lines 46-60
InFlightMarker(t, manual) ==
  [id |-> <<"compaction-marker", t>>, role |-> "assistant",
   created |-> t \div MsPerSecond,
   content |-> <<CompactionMarkerContent(IF manual THEN ManualMsg ELSE AutoMsg)>>,
   display |-> TRUE, sendToLLM |-> FALSE]

\* a completed marker built afresh instead of spread from the in-flight one
CompletedMarker_fresh(marker) ==
  [marker EXCEPT !.id = <<"compaction-completed", 0>>,
                 !.content = <<CompactionMarkerContent(CompletedMsg)>>]

\* lines 84-92
CompletedMarker(marker) ==
  [marker EXCEPT !.content = <<CompactionMarkerContent(CompletedMsg)>>]

\* lines 109-121
ErrorMarker(t) ==
  [id |-> <<"compaction-error", t>>, role |-> "assistant",
   created |-> t \div MsPerSecond,
   content |-> <<CompactionMarkerContent(FailedMsg)>>,
   display |-> TRUE, sendToLLM |-> FALSE]

\* line 63
MarkedHistory(msgs, marker) == Append(msgs, marker)

\* the list just shown, marker included, sent for summarization
SummarizeInput_marked(msgs, marker) == Append(msgs, marker)

\* lines 66-69: what is summarized
SummarizeInput(msgs, marker) == msgs

\* line 95
CollapsedHistory(completed, summary) == <<completed, summary>>

\* the error marker appended to the marked history instead of the argument
FailedHistory_keepsMarker(msgs, marker, errorMarker) ==
  Append(Append(msgs, marker), errorMarker)

\* the error marker appended to the list the caller holds at that moment
FailedHistory_current(msgs, marker, errorMarker) == Append(history, errorMarker)

\* line 123
FailedHistory(msgs, marker, errorMarker) == Append(msgs, errorMarker)

\* the timer scheduled on every branch
SchedulesResume_always(branch) == TRUE

\* lines 97-100: only the success branch schedules the timer; the branch
\* taken is "success", "malformed" (the if at 78-82 is false) or "failure".
SchedulesResume(branch) == branch = "success"

\* line 106
ErrorText(err) == IF err.isError THEN err.message ELSE UnknownErrorMsg

\* the two flags handed over in the other order
ConvertedMessages_shown(response) ==
  [i \in 1..Len(response) |-> convertApiMessageToFrontendMessage(response[i], TRUE, FALSE)]

\* lines 72-74
ConvertedMessages(response) ==
  [i \in 1..Len(response) |-> convertApiMessageToFrontendMessage(response[i], FALSE, TRUE)]

\* lines 77-82: the guard of the success branch
HasTextSummary(converted) ==
  /\ Len(converted) >= 1
  /\ Len(converted[1].content) >= 1
  /\ converted[1].content[1].type = "text"

\* setMessages(v) by call p
SetMessages(p, v) ==
  /\ history' = v
  /\ setMessagesCalls' = [setMessagesCalls EXCEPT ![p] = Append(@, v)]

\* the entry without its setCompactionError(null)
performCompaction_keepsError(p, msgs, app, manual) ==
  /\ pc[p] = "idle"
  /\ \A q \in Calls : q < p => pc[q] # "idle"
  /\ isCompacting' = TRUE
  /\ LET marker == InFlightMarker(now, manual) IN
       /\ compactionMarker' = [compactionMarker EXCEPT ![p] = marker]
       /\ SetMessages(p, MarkedHistory(msgs, marker))
       /\ sent' = [sent EXCEPT ![p] = manageContextFromBackend(SummarizeInput(msgs, marker))]
  /\ messages' = [messages EXCEPT ![p] = msgs]
  /\ append' = [append EXCEPT ![p] = app]
  /\ isManual' = [isManual EXCEPT ![p] = manual]
  /\ pc' = [pc EXCEPT ![p] = "awaiting"]
  /\ UNCHANGED <<compactionError, now, outcome, summaryMessage, resumeCalls>>
  /\ UNCHANGED uiVars

\* lines 41-69: from entry to the await
performCompaction(p, msgs, app, manual) ==
  /\ pc[p] = "idle"
  /\ \A q \in Calls : q < p => pc[q] # "idle"
  /\ isCompacting' = TRUE
  /\ compactionError' = Null
  /\ LET marker == InFlightMarker(now, manual) IN
       /\ compactionMarker' = [compactionMarker EXCEPT ![p] = marker]
       /\ SetMessages(p, MarkedHistory(msgs, marker))
       /\ sent' = [sent EXCEPT ![p] = manageContextFromBackend(SummarizeInput(msgs, marker))]
  /\ messages' = [messages EXCEPT ![p] = msgs]
  /\ append' = [append EXCEPT ![p] = app]
  /\ isManual' = [isManual EXCEPT ![p] = manual]
  /\ pc' = [pc EXCEPT ![p] = "awaiting"]
  /\ UNCHANGED <<now, outcome, summaryMessage, resumeCalls>>
  /\ UNCHANGED uiVars

\* lines 130-139
handleAutoCompaction(p, msgs) == performCompaction(p, msgs, "caller", FALSE)

\* lines 141-146: the append handed on is () => {}
handleManualCompaction(p, msgs) == performCompaction(p, msgs, "noop", TRUE)

\* append(summaryMessage) called directly after setMessages, not from a timer
SummaryResolved_resumesAtOnce(p, response) ==
  /\ pc[p] = "awaiting"
  /\ outcome' = [outcome EXCEPT ![p] = [kind |-> "resolved", response |-> response]]
  /\ LET converted == ConvertedMessages(response) IN
       IF HasTextSummary(converted)
       THEN /\ SetMessages(p, CollapsedHistory(CompletedMarker(compactionMarker[p]), converted[1]))
            /\ summaryMessage' = [summaryMessage EXCEPT ![p] = converted[1]]
            /\ resumeCalls' = IF append[p] = "caller"
                              THEN Append(resumeCalls, [call |-> p, message |-> converted[1]])
                              ELSE resumeCalls
       ELSE UNCHANGED <<history, setMessagesCalls, summaryMessage, resumeCalls>>
  /\ pc' = [pc EXCEPT ![p] = "done"]
  /\ isCompacting' = FALSE
  /\ UNCHANGED <<compactionError, now, messages, append, isManual,
                 compactionMarker, sent>>
  /\ UNCHANGED uiVars

\* lines 71-103: the promise resolved
SummaryResolved(p, response) ==
  /\ pc[p] = "awaiting"
  /\ outcome' = [outcome EXCEPT ![p] = [kind |-> "resolved", response |-> response]]
  /\ LET converted == ConvertedMessages(response) IN
       IF HasTextSummary(converted)
       THEN /\ SetMessages(p, CollapsedHistory(CompletedMarker(compactionMarker[p]), converted[1]))
            /\ summaryMessage' = [summaryMessage EXCEPT ![p] = converted[1]]
            /\ pc' = [pc EXCEPT ![p] = IF SchedulesResume("success") THEN "timer" ELSE "done"]
       ELSE /\ UNCHANGED <<history, setMessagesCalls, summaryMessage>>
            /\ pc' = [pc EXCEPT ![p] = IF SchedulesResume("malformed") THEN "timer" ELSE "done"]
  /\ isCompacting' = FALSE
  /\ UNCHANGED <<compactionError, now, messages, append, isManual,
                 compactionMarker, sent, resumeCalls>>
  /\ UNCHANGED uiVars

\* the catch block without its setIsCompacting(false)
SummaryRejected_staysCompacting(p, err) ==
  /\ pc[p] = "awaiting"
  /\ outcome' = [outcome EXCEPT ![p] = [kind |-> "rejected", error |-> err]]
  /\ compactionError' = Str(ErrorText(err))
  /\ SetMessages(p, FailedHistory(messages[p], compactionMarker[p], ErrorMarker(now)))
  /\ pc' = [pc EXCEPT ![p] = IF SchedulesResume("failure") THEN "timer" ELSE "done"]
  /\ UNCHANGED <<isCompacting, now, messages, append, isManual, compactionMarker,
                 sent, summaryMessage, resumeCalls>>
  /\ UNCHANGED uiVars

\* lines 104-125: the promise rejected
SummaryRejected(p, err) ==
  /\ pc[p] = "awaiting"
  /\ outcome' = [outcome EXCEPT ![p] = [kind |-> "rejected", error |-> err]]
  /\ compactionError' = Str(ErrorText(err))
  /\ SetMessages(p, FailedHistory(messages[p], compactionMarker[p], ErrorMarker(now)))
  /\ isCompacting' = FALSE
  /\ pc' = [pc EXCEPT ![p] = IF SchedulesResume("failure") THEN "timer" ELSE "done"]
  /\ UNCHANGED <<now, messages, append, isManual, compactionMarker, sent,
                 summaryMessage, resumeCalls>>
  /\ UNCHANGED uiVars

\* lines 98-100: the timer callback
ResumeTimer(p) ==
  /\ pc[p] = "timer"
  /\ resumeCalls' = IF append[p] = "caller"
                    THEN Append(resumeCalls, [call |-> p, message |-> summaryMessage[p]])
                    ELSE resumeCalls
  /\ pc' = [pc EXCEPT ![p] = "done"]
  /\ UNCHANGED <<isCompacting, compactionError, history, now, messages, append,
                 isManual, compactionMarker, sent, outcome, summaryMessage,
                 setMessagesCalls>>
  /\ UNCHANGED uiVars

\* Date.now() moves on
Tick ==
  /\ now < MaxClock
  /\ now' = now + 1
  /\ UNCHANGED <<isCompacting, compactionError, history, pc, messages, append,
                 isManual, compactionMarker, sent, outcome, summaryMessage,
                 setMessagesCalls, resumeCalls>>
  /\ UNCHANGED uiVars

\* The caller adds a message of its own to the list it owns (the messages
\* state the setMessages of lines 14 and 19 belongs to).
CallerAppends ==
  /\ \A i \in 1..Len(history) : history[i] # LateMessage
  /\ history' = Append(history, LateMessage)
  /\ UNCHANGED <<isCompacting, compactionError, now, pc, messages, append,
                 isManual, compactionMarker, sent, outcome, summaryMessage,
                 setMessagesCalls, resumeCalls>>
  /\ UNCHANGED uiVars

Next ==
  \/ \E p \in Calls : \E msgs \in InputHistories \cup {history} : handleAutoCompaction(p, msgs)
  \/ \E p \in Calls : \E msgs \in InputHistories \cup {history} : handleManualCompaction(p, msgs)
  \/ \E p \in Calls : \E response \in Responses : SummaryResolved(p, response)
  \/ \E p \in Calls : \E err \in Rejections : SummaryRejected(p, err)
  \/ \E p \in Calls : ResumeTimer(p)
  \/ CallerAppends
  \/ Tick

Spec == Init /\ [][Next]_vars

\* The summarization promise settles and a scheduled timer fires; nothing
\* obliges anyone to trigger a compaction.
Settles(p) ==
  \/ \E response \in Responses : SummaryResolved(p, response)
  \/ \E err \in Rejections : SummaryRejected(p, err)

FairSpec ==
  Spec /\ \A p \in Calls : WF_vars(Settles(p)) /\ WF_vars(ResumeTimer(p))

\* ------------------------------------------------------- the UI's two calls
\* The content blocks a message handed to the UI can hold; the last one is a
\* compactionMarker block whose msg is missing.
Blocks ==
  { TextContent("hi"), ToolRequestContent,
    CompactionMarkerContent(""), CompactionMarkerContent(AutoMsg),
    CompactionMarkerContent(CompletedMsg), [type |-> "compactionMarker"] }

Contents == UNION {[1..n -> Blocks] : n \in 0..MaxBlocks}

\* What the coordinator builds: its three kinds of marker, its summaries.
CoordinatorMarkers ==
  UNION { {InFlightMarker(t, FALSE), InFlightMarker(t, TRUE),
           CompletedMarker(InFlightMarker(t, FALSE)), ErrorMarker(t)} : t \in 0..MaxClock }

CoordinatorSummaries ==
  { ConvertedMessages(r)[1] : r \in {x \in Responses : HasTextSummary(ConvertedMessages(x))} }

RenderInputs ==
  { [id |-> <<"ui", 0>>, role |-> "assistant", created |-> 0, content |-> c,
     display |-> TRUE, sendToLLM |-> FALSE] : c \in Contents }
  \cup CoordinatorMarkers \cup CoordinatorSummaries

RenderInit ==
  /\ isCompacting = FALSE
  /\ compactionError = Null
  /\ history = <<>>
  /\ now = 0
  /\ pc = [p \in Calls |-> "idle"]
  /\ messages = [p \in Calls |-> <<>>]
  /\ append = [p \in Calls |-> "none"]
  /\ isManual = [p \in Calls |-> FALSE]
  /\ compactionMarker = [p \in Calls |-> NoMessage]
  /\ sent = [p \in Calls |-> Null]
  /\ outcome = [p \in Calls |-> Pending]
  /\ summaryMessage = [p \in Calls |-> NoMessage]
  /\ setMessagesCalls = [p \in Calls |-> <<>>]
  /\ resumeCalls = <<>>
  /\ renderInput \in RenderInputs
  /\ renderedText = <<>>
  /\ markerFlags = <<>>

\* <CompactionMarker message={renderInput} />
Render ==
  /\ Len(renderedText) < MaxRenders
  /\ renderedText' = Append(renderedText, CompactionMarker(renderInput))
  /\ UNCHANGED <<coordinatorVars, renderInput, markerFlags>>

\* hasCompactionMarker(renderInput)
Detect ==
  /\ Len(markerFlags) < MaxRenders
  /\ markerFlags' = Append(markerFlags, hasCompactionMarker(renderInput))
  /\ UNCHANGED <<coordinatorVars, renderInput, renderedText>>

RenderNext == Render \/ Detect

RenderSpec == RenderInit /\ [][RenderNext]_vars

TypeOK ==
  /\ isCompacting \in BOOLEAN
  /\ now \in 0..MaxClock
  /\ \A p \in Calls : pc[p] \in {"idle", "awaiting", "timer", "done"}
\* ------------------------------------------------------ reading the records
Last(s) == s[Len(s)]

\* The response's first message has a text first content block.
FirstIsText(response) ==
  /\ response # <<>>
  /\ response[1].content # <<>>
  /\ response[1].content[1].type = "text"

Succeeded(p) == outcome[p].kind = "resolved" /\ FirstIsText(outcome[p].response)
Malformed(p) == outcome[p].kind = "resolved" /\ ~FirstIsText(outcome[p].response)
Rejected(p)  == outcome[p].kind = "rejected"

\* The marker call p put at the end of the first history it wrote.
WrittenMarker(p) == Last(setMessagesCalls[p][1])

\* ---------------------------------------------------------------------- C1
\* C1: whenever a call (automatic or manual, on a history of any length)
\* got a response whose first message starts with a text block S, the last
\* value it passed to setMessages is the two-element sequence of the
\* completed marker - the id of the in-flight marker it wrote first, the msg
\* "Conversation compacted. Summary prepared to continue." - and the summary
\* message carrying S; nothing of the input history is in it.
C1_HistoryCollapse ==
  \A p \in Calls :
    Succeeded(p) =>
      LET final == Last(setMessagesCalls[p])
          S == outcome[p].response[1].content[1].text
      IN /\ Len(setMessagesCalls[p]) = 2
         /\ Len(final) = 2
         /\ final[1].id = WrittenMarker(p).id
         /\ final[1].content =
              <<[type |-> "compactionMarker",
                 msg |-> "Conversation compacted. Summary prepared to continue."]>>
         /\ final[1] = [WrittenMarker(p) EXCEPT !.content = final[1].content]
         /\ final[2].content[1] = [type |-> "text", text |-> S]
         /\ final[2] = summaryMessage[p]

\* Both triggers have collapsed a non-empty history.
C1_Witness ==
  \E p, q \in Calls :
    /\ Succeeded(p) /\ isManual[p] /\ Len(messages[p]) >= 1
    /\ Succeeded(q) /\ ~isManual[q]
    /\ history = Last(setMessagesCalls[q])

\* ---------------------------------------------------------------------- C2
\* C2 as stated: after a rejected summarization the last history written is
\* the marked history (N+1 entries, in-flight marker included) plus one
\* error marker, N+2 entries.
C2_Original ==
  \A p \in Calls :
    Rejected(p) =>
      LET marked == setMessagesCalls[p][1]
          final == Last(setMessagesCalls[p])
      IN /\ Len(final) = Len(messages[p]) + 2
         /\ SubSeq(final, 1, Len(marked)) = marked

\* C2 amended: after a rejected summarization the last history written is
\* the history given to the trigger (N entries, unaltered) plus one error
\* marker with msg "Compaction failed. Please try again or start a new
\* session.", N+1 entries: the error marker stands where the in-flight
\* marker stood.
C2_ErrorMarkerReplacesMarker ==
  \A p \in Calls :
    Rejected(p) =>
      LET N == Len(messages[p])
          marked == setMessagesCalls[p][1]
          final == Last(setMessagesCalls[p])
      IN /\ Len(setMessagesCalls[p]) = 2
         /\ Len(marked) = N + 1
         /\ Len(final) = N + 1
         /\ SubSeq(final, 1, N) = messages[p]
         /\ SubSeq(final, 1, N) = SubSeq(marked, 1, N)
         /\ final[N + 1].content =
              <<[type |-> "compactionMarker",
                 msg |-> "Compaction failed. Please try again or start a new session."]>>
         /\ final[N + 1] # marked[N + 1]

\* A call on a non-empty history was rejected.
C2_Witness ==
  \E p \in Calls : Rejected(p) /\ Len(messages[p]) >= 1 /\ pc[p] = "done"

\* ---------------------------------------------------------------------- C3
\* C3: at most one summarization call is outstanding at any time: a trigger
\* invoked while isCompacting is true starts no second call and writes no
\* history.
C3_Exclusivity ==
  Cardinality({p \in Calls : pc[p] = "awaiting"}) <= 1
\* ---------------------------------------------------------------------- C4
\* The invocations of the caller's send-next-turn capability made by call p.
ResumesOf(p) == SelectSeq(resumeCalls, LAMBDA e : e.call = p)

\* C4: once a successful compaction has run to its end, automatic or manual,
\* the caller's resume capability has been invoked exactly once by it, with
\* the summary message that is second in the collapsed history.
C4_ResumeOnce ==
  \A p \in Calls :
    (Succeeded(p) /\ pc[p] = "done") =>
      /\ Len(ResumesOf(p)) = 1
      /\ ResumesOf(p)[1].message = Last(setMessagesCalls[p])[2]

\* ---------------------------------------------------------------------- C5
\* C5: the step that takes in a malformed response (no message, no content
\* block, first block not text) does what the step for a rejection does:
\* compactionError becomes non-null, the history ends with an error marker,
\* isCompacting is false and no resume is scheduled.
C5_MalformedAsRejected ==
  [][\A p \in Calls :
       (pc[p] = "awaiting" /\ Malformed(p)') =>
         /\ compactionError' # Null
         /\ history' # <<>>
         /\ Last(history').content = <<CompactionMarkerContent(FailedMsg)>>
         /\ ~isCompacting'
         /\ pc'[p] = "done"]_vars

\* ---------------------------------------------------------------------- C6
\* C6: a call whose summarization was rejected has no resume timer pending
\* and has never invoked the resume capability.
C6_NoResumeOnFailure ==
  \A p \in Calls :
    Rejected(p) => pc[p] = "done" /\ Len(ResumesOf(p)) = 0

\* An automatic compaction was rejected, and the resume capability has been
\* used (by the other call).
C6_Witness ==
  \E p \in Calls :
    /\ Rejected(p) /\ append[p] = "caller"
    /\ resumeCalls # <<>>

\* ---------------------------------------------------------------------- C7
NoneInFlight == \A p \in Calls : pc[p] # "awaiting"

\* C7: whenever no summarization call is outstanding isCompacting is false,
\* and whenever isCompacting is true it becomes false again, given that the
\* outstanding calls settle.
C7_RunToCompletion ==
  /\ [](NoneInFlight => ~isCompacting)
  /\ (isCompacting ~> ~isCompacting)

\* A malformed response and a rejection have both been taken in, and the
\* flag is down.
C7_Witness ==
  \E p, q \in Calls : Malformed(p) /\ Rejected(q) /\ NoneInFlight /\ ~isCompacting

\* ---------------------------------------------------------------------- C8
\* C8: the messages of the summarization request are the trigger's
\* argument: the history the call displayed before the request, without the
\* marker at its end.
C8_PreMarkerSent ==
  \A p \in Calls :
    pc[p] # "idle" =>
      LET marked == setMessagesCalls[p][1] IN
      /\ sent[p].manageAction = "summarize"
      /\ sent[p].messages = messages[p]
      /\ Len(sent[p].messages) = Len(marked) - 1
      /\ sent[p].messages = SubSeq(marked, 1, Len(marked) - 1)

\* A request is outstanding for a non-empty history while the marker shows.
C8_Witness ==
  \E p \in Calls :
    /\ pc[p] = "awaiting"
    /\ Len(messages[p]) >= 1
    /\ history = Append(sent[p].messages, compactionMarker[p])

\* ---------------------------------------------------------------------- C9
\* C9: the step that starts a compaction leaves compactionError null; the
\* step that takes in a rejection with an Error of message M leaves
\* compactionError = M and isCompacting false; the step that completes a
\* successful compaction leaves compactionError null.
C9_ErrorThroughState ==
  [][\A p \in Calls :
       /\ (pc[p] = "idle" /\ pc'[p] = "awaiting") => compactionError' = Null
       /\ (pc[p] = "awaiting" /\ Rejected(p)' /\ outcome'[p].error.isError) =>
            compactionError' = <<outcome'[p].error.message>> /\ ~isCompacting'
       /\ (pc[p] = "awaiting" /\ Succeeded(p)') => compactionError' = Null]_vars

\* --------------------------------------------------------------------- C10
\* A history value with the status text of in-flight markers blanked.
BlankInFlight(h) ==
  [i \in 1..Len(h) |->
     IF h[i].content \in {<<CompactionMarkerContent(AutoMsg)>>,
                          <<CompactionMarkerContent(ManualMsg)>>}
     THEN [h[i] EXCEPT !.content = <<CompactionMarkerContent("")>>]
     ELSE h[i]]

Messages(calls) == [i \in 1..Len(calls) |-> calls[i].message]

\* C10: an automatic and a manual compaction run to their end on the same
\* history, at the same clock readings and with the same summarization
\* outcome have written the same histories (but for the in-flight status
\* text) and made the same resume invocations.
C10_SameMachine ==
  \A p, q \in Calls :
    ( /\ pc[p] = "done" /\ pc[q] = "done"
      /\ ~isManual[p] /\ isManual[q]
      /\ messages[p] = messages[q]
      /\ outcome[p] = outcome[q]
      /\ compactionMarker[p].id = compactionMarker[q].id
      /\ Len(setMessagesCalls[p]) = Len(setMessagesCalls[q])
      /\ Last(Last(setMessagesCalls[p])).id = Last(Last(setMessagesCalls[q])).id )
    => /\ \A i \in 1..Len(setMessagesCalls[p]) :
            BlankInFlight(setMessagesCalls[p][i]) = BlankInFlight(setMessagesCalls[q][i])
       /\ Messages(ResumesOf(p)) = Messages(ResumesOf(q))
\* --------------------------------------------------------------------- C11
\* C11: in every history value written, every message with a
\* compactionMarker block has role assistant, display = true and
\* sendToLLM = false, and the summary message that is second in a collapsed
\* history has display = false and sendToLLM = true.
C11_VisibilityFlags ==
  /\ \A p \in Calls : \A i \in 1..Len(setMessagesCalls[p]) :
       \A k \in 1..Len(setMessagesCalls[p][i]) :
         LET m == setMessagesCalls[p][i][k] IN
         (\E b \in 1..Len(m.content) : m.content[b].type = "compactionMarker") =>
           m.role = "assistant" /\ m.display = TRUE /\ m.sendToLLM = FALSE
  /\ \A p \in Calls :
       Succeeded(p) =>
         LET summary == Last(setMessagesCalls[p])[2] IN
         summary.display = FALSE /\ summary.sendToLLM = TRUE

\* In-flight, completed and error markers and a summary have all been
\* written.
C11_Witness ==
  \E p, q \in Calls :
    /\ Succeeded(p) /\ Rejected(q)
    /\ Last(Last(setMessagesCalls[q])).content = <<CompactionMarkerContent(FailedMsg)>>
    /\ Last(setMessagesCalls[p])[1].content = <<CompactionMarkerContent(CompletedMsg)>>

\* --------------------------------------------------------------------- C12
Ended(p) == pc[p] \in {"timer", "done"}

\* The caller's history still shows the in-progress marker of call p.
ShowsInProgress(p) ==
  \E k \in 1..Len(history) : history[k] = compactionMarker[p]

\* C12: once an attempt has ended, the history does not show that
\* attempt's marker with the in-progress text any more (leaving aside a
\* running attempt whose marker is indistinguishable from it), and an
\* attempt's in-progress marker is never in a written history together with
\* that attempt's error marker.
C12_NoStaleMarker ==
  /\ \A p \in Calls :
       (Ended(p) /\ \A q \in Calls : pc[q] = "awaiting" => compactionMarker[q] # compactionMarker[p])
         => ~ShowsInProgress(p)
  /\ \A p \in Calls :
       Rejected(p) =>
         LET final == Last(setMessagesCalls[p]) IN
         \A k \in 1..(Len(final) - 1) : final[k] # compactionMarker[p]

\* --------------------------------------------------------------------- C13
Entries(h) == {h[k] : k \in 1..Len(h)}

\* C13: every history value a call writes is made of its messages argument,
\* in place and unaltered, and of what the call itself built (its marker,
\* its error marker, the converted summary): the first value is the
\* argument plus one marker, a rejection's value is the argument plus one
\* error marker, a success's value holds no entry of the caller's at all.
\* So a message the caller added in the meantime is in no written value
\* unless the argument held it.
C13_ComputedFromArgument ==
  \A p \in Calls :
    pc[p] # "idle" =>
      LET w == setMessagesCalls[p]
          N == Len(messages[p])
      IN /\ SubSeq(w[1], 1, N) = messages[p] /\ Len(w[1]) = N + 1
         /\ Rejected(p) => SubSeq(w[2], 1, N) = messages[p] /\ Len(w[2]) = N + 1
         /\ Succeeded(p) => Len(w[2]) = 2
         /\ \A i \in 1..Len(w) :
              LateMessage \in Entries(w[i]) => LateMessage \in Entries(messages[p])

\* The caller added a message while call p was outstanding (call q was
\* handed the history holding p's marker and that message), and the history
\* is what p wrote on rejection, without the message.
C13_Witness ==
  \E p, q \in Calls :
    /\ Rejected(p)
    /\ messages[q] = Append(Append(messages[p], compactionMarker[p]), LateMessage)
    /\ history = Last(setMessagesCalls[p])
    /\ LateMessage \notin Entries(history)
\* --------------------------------------------------------------------- C16
\* C16: a step in which call p invokes the resume capability starts in a
\* state where p has already written the collapsed history
\* [completedMarker, summaryMessage], and writes no history itself.
C16_ResumeAfterCollapse ==
  [][\A p \in Calls :
       Len(ResumesOf(p))' > Len(ResumesOf(p)) =>
         /\ Succeeded(p)
         /\ Len(setMessagesCalls[p]) = 2
         /\ Last(setMessagesCalls[p])[1].content = <<CompactionMarkerContent(CompletedMsg)>>
         /\ Last(setMessagesCalls[p])[2] = Last(ResumesOf(p)').message
         /\ setMessagesCalls' = setMessagesCalls
         /\ history' = history]_vars

\* A call has resumed with its summary while its collapsed history shows.
C16_Witness ==
  \E p \in Calls :
    /\ pc[p] = "done" /\ Len(ResumesOf(p)) = 1
    /\ history = Last(setMessagesCalls[p])
    /\ history[2] = ResumesOf(p)[1].message

\* --------------------------------------------------------------------- C17
\* C17: in every history value written, a message with a compactionMarker
\* block has an id no other message of that value has.
C17_FreshIdentifiers ==
  \A p \in Calls : \A i \in 1..Len(setMessagesCalls[p]) :
    LET h == setMessagesCalls[p][i] IN
    \A j, k \in 1..Len(h) :
      (j # k /\ hasCompactionMarker(h[j])) => h[j].id # h[k].id

\* --------------------------------------------------------------------- C18
\* C18: isCompacting is true whenever a summarization call is outstanding.
C18_FlagAccurate ==
  (\E p \in Calls : pc[p] = "awaiting") => isCompacting

\* --------------------------------------------------------------------- C19
\* C19: a step that invokes the resume capability starts in a state where
\* isCompacting is false and no compaction is running with its in-flight
\* marker in the history.
C19_ResumeOutsideCompaction ==
  [][resumeCalls' # resumeCalls =>
       /\ ~isCompacting
       /\ \A q \in Calls : ~(pc[q] = "awaiting" /\ ShowsInProgress(q))]_vars

\* --------------------------------------------------------------------- C20
\* C20: isCompacting = true implies compactionError = null; compactionError
\* is non-null only when isCompacting is false and some call was rejected,
\* and then it is the text of one of the rejections.
C20_StateConsistency ==
  /\ isCompacting => compactionError = Null
  /\ compactionError # Null =>
       /\ ~isCompacting
       /\ \E p \in Calls :
            /\ Rejected(p)
            /\ compactionError =
                 <<IF outcome[p].error.isError THEN outcome[p].error.message
                   ELSE "Unknown error during compaction">>

\* A compaction is running after an earlier one was rejected: the error of
\* the earlier one has been cleared.
C20_Witness ==
  \E p, q \in Calls :
    /\ Rejected(p) /\ pc[q] = "awaiting"
    /\ messages[q] = Last(setMessagesCalls[p])
    /\ isCompacting /\ compactionError = Null
\* --------------------------------------------------------------------- C14
\* The coordinator's state is as it was created.
CoordinatorUntouched ==
  /\ ~isCompacting /\ compactionError = <<>> /\ history = <<>>
  /\ resumeCalls = <<>> /\ \A p \in Calls : pc[p] = "idle" /\ setMessagesCalls[p] = <<>>

MarkerBlocks(m) == {i \in 1..Len(m.content) : m.content[i].type = "compactionMarker"}

\* C14: every rendering of a message is the msg of its first
\* compactionMarker block when that msg is there and non-empty, and the
\* literal "Conversation compacted" otherwise (msg empty, msg missing, no
\* such block); so repeated renderings agree, and rendering leaves the
\* message and the coordinator's state alone.
C14_RenderProjection ==
  /\ \A i \in 1..Len(renderedText) :
       LET m == renderInput
           first == CHOOSE k \in MarkerBlocks(m) : \A j \in MarkerBlocks(m) : k <= j
       IN renderedText[i] =
            IF MarkerBlocks(m) = {} THEN "Conversation compacted"
            ELSE IF "msg" \in DOMAIN m.content[first] /\ m.content[first].msg # ""
                 THEN m.content[first].msg
                 ELSE "Conversation compacted"
  /\ \A i, j \in 1..Len(renderedText) : renderedText[i] = renderedText[j]
  /\ CoordinatorUntouched

\* A message whose first marker block has an empty msg and whose second has
\* not was rendered twice, to the default text.
C14_Witness ==
  /\ renderInput.content = <<CompactionMarkerContent(""), CompactionMarkerContent(AutoMsg)>>
  /\ renderedText = <<"Conversation compacted", "Conversation compacted">>

\* --------------------------------------------------------------------- C15
\* C15: every answer of hasCompactionMarker for a message is TRUE exactly
\* when one of its content blocks, at whatever position, has type
\* compactionMarker: TRUE for the markers the coordinator builds, FALSE for
\* its summary messages and for a message without content blocks.
C15_MarkerDetection ==
  \A i \in 1..Len(markerFlags) :
    /\ markerFlags[i] = (Cardinality(MarkerBlocks(renderInput)) >= 1)
    /\ renderInput \in CoordinatorMarkers => markerFlags[i] = TRUE
    /\ renderInput \in CoordinatorSummaries => markerFlags[i] = FALSE
    /\ renderInput.content = <<>> => markerFlags[i] = FALSE

\* A message whose only marker block comes second was tested.
C15_Witness ==
  /\ renderInput.content = <<TextContent("hi"), CompactionMarkerContent(CompletedMsg)>>
  /\ markerFlags = <<TRUE, TRUE>>
====
